---- MODULE Spec2Model ----
(***************************************************************************)
(* A model of src/app.js: the three exported operations processInput,      *)
(* safeEval and processData, the configuration record they read, the       *)
(* timer and the promises processData creates, and the driver main().      *)
(*                                                                         *)
(* A text is a sequence of one-character strings; a JavaScript value is a  *)
(* record tagged by its typeof/kind in field t.                            *)
(***************************************************************************)
EXTENDS Integers, Sequences, FiniteSets, TLC

VARIABLES
    isMain,      \* require.main === module: the file is run as a script
    config,      \* the config object of lines 6-10
    pc,          \* where the synchronous body of processData stands
    elapsed,     \* milliseconds since setTimeout registered the timer
    timer,       \* the timer of line 69: "none", "pending", "cleared", "fired"
    promise,     \* the promise built at line 68
    settleCalls, \* how many times its resolve or reject has been called
    outer,       \* the promise the async function processData returns
    data,        \* the array being mapped
    idx,         \* the next index Array.prototype.map visits
    result,      \* the elements map has produced so far
    expired,     \* the duration elapsed while map had elements left to visit
    caught,      \* the error caught at line 83
    last,        \* the library call in hand: function, argument, completion,
                 \* and whether other calls were made before it
    mainPc,      \* where main() stands
    fixture,     \* the three sample values of main(), lines 98, 103, 108
    invoked,     \* the operations main() has invoked, in order
    mainError,   \* the error caught at line 114
    out,         \* the lines written with console.log
    err,         \* the lines written with console.error
    exitCode     \* the exit status of the process, -1 while it runs

vars == <<isMain, config, pc, elapsed, timer, promise, settleCalls, outer, data,
          idx, result, expired, caught, last, mainPc, fixture, invoked, mainError,
          out, err, exitCode>>

-----------------------------------------------------------------------------
(* Bounds of the model. *)

\* longest text enumerated as an argument of processInput
MaxInputLen == 3
\* longest text enumerated as an argument of safeEval
MaxExprLen == 3
\* longest array enumerated as an argument of processData
MaxDataLen == 3
\* milliseconds that pass in one step of the clock
TickMs == 2500

-----------------------------------------------------------------------------
(* JavaScript values. *)

Undefined == [t |-> "undefined"]
Null == [t |-> "null"]
Num(n) == [t |-> "number", n |-> n]
Str(s) == [t |-> "string", s |-> s]
Arr(a) == [t |-> "array", a |-> a]
PromiseRef == [t |-> "promise"]

IsString(v) == v.t = "string"
IsNumber(v) == v.t = "number"
IsArray(v) == v.t = "array"

\* a completion of a synchronous call
Return(v) == [kind |-> "return", val |-> v]
Throw(m) == [kind |-> "throw", msg |-> m]

-----------------------------------------------------------------------------
(* Characters and the string built-ins the code uses. *)

LowerLetters == <<"a","b","c","d","e","f","g","h","i","j","k","l","m",
                  "n","o","p","q","r","s","t","u","v","w","x","y","z">>
UpperLetters == <<"A","B","C","D","E","F","G","H","I","J","K","L","M",
                  "N","O","P","Q","R","S","T","U","V","W","X","Y","Z">>
DigitChars == <<"0","1","2","3","4","5","6","7","8","9">>

Range(f) == {f[i] : i \in DOMAIN f}
Letters == Range(LowerLetters) \cup Range(UpperLetters)
Digits == Range(DigitChars)
\* the characters \s matches and trim() strips, among those modelled
WhiteSpace == {" ", "\t"}

\* the character class of config.allowedChars, line 8
AllowedClass == Letters \cup Digits \cup WhiteSpace \cup {"-", "_"}
\* the character class of the pattern of line 46
ExprClass == Digits \cup {"+", "-", "*", "/", "(", ")", "."} \cup WhiteSpace

ToUpperChar(c) ==
    IF c \in Range(LowerLetters)
    THEN UpperLetters[CHOOSE i \in DOMAIN LowerLetters : LowerLetters[i] = c]
    ELSE c

\* String.prototype.toUpperCase
ToUpperCase(s) == [i \in DOMAIN s |-> ToUpperChar(s[i])]

\* String.prototype.trim
Trim(s) ==
    LET keep == {i \in DOMAIN s : s[i] \notin WhiteSpace}
    IN  IF keep = {} THEN <<>>
        ELSE LET lo == CHOOSE i \in keep : \A j \in keep : i <= j
                 hi == CHOOSE i \in keep : \A j \in keep : j <= i
             IN  SubSeq(s, lo, hi)

\* /^[class]+$/ against the whole text
MatchesAll(class, s) == Len(s) > 0 /\ \A i \in DOMAIN s : s[i] \in class

\* RegExp.prototype.test of a pattern /^[class]+$/ with the g flag set: the
\* search starts at lastIndex and leaves the end of the match there
RegExpTestGlobal(re, class, s) ==
    LET hit == re.lastIndex = 0 /\ MatchesAll(class, s)
    IN  [matched |-> hit,
         re |-> [re EXCEPT !.lastIndex = IF hit THEN Len(s) ELSE 0]]

\* RegExp.prototype.test of a pattern /^[class]+$/ without flags: lastIndex is
\* neither read nor written
RegExpTest(re, class, s) ==
    [matched |-> MatchesAll(class, s), re |-> re]

-----------------------------------------------------------------------------
(* processInput, lines 18-32.  The completion and the configuration after. *)

\* processInput with the pattern tested before the length
ProcessInputPatternFirst(cfg, input) ==
    IF ~IsString(input) \/ input.s = <<>>
    THEN [done |-> Throw("Input must be a non-empty string"), cfg |-> cfg]
    ELSE LET m == RegExpTest(cfg.allowedChars, AllowedClass, input.s)
             c == [cfg EXCEPT !.allowedChars = m.re]
         IN  IF ~m.matched
             THEN [done |-> Throw("Input contains invalid characters"), cfg |-> c]
             ELSE IF Len(input.s) > cfg.maxInputLength
             THEN [done |-> Throw("Input too long"), cfg |-> c]
             ELSE [done |-> Return(Str(ToUpperCase(Trim(input.s)))), cfg |-> c]

\* processInput returning input.trim() without toUpperCase()
ProcessInputNoUpper(cfg, input) ==
    IF ~IsString(input) \/ input.s = <<>>
    THEN [done |-> Throw("Input must be a non-empty string"), cfg |-> cfg]
    ELSE IF Len(input.s) > cfg.maxInputLength
    THEN [done |-> Throw("Input too long"), cfg |-> cfg]
    ELSE LET m == RegExpTest(cfg.allowedChars, AllowedClass, input.s)
             c == [cfg EXCEPT !.allowedChars = m.re]
         IN  IF ~m.matched
             THEN [done |-> Throw("Input contains invalid characters"), cfg |-> c]
             ELSE [done |-> Return(Str(Trim(input.s))), cfg |-> c]

ProcessInput(cfg, input) ==
    IF ~IsString(input) \/ input.s = <<>>
    THEN [done |-> Throw("Input must be a non-empty string"), cfg |-> cfg]
    ELSE IF Len(input.s) > cfg.maxInputLength
    THEN [done |-> Throw("Input too long"), cfg |-> cfg]
    ELSE LET m == RegExpTest(cfg.allowedChars, AllowedClass, input.s)
             c == [cfg EXCEPT !.allowedChars = m.re]
         IN  IF ~m.matched
             THEN [done |-> Throw("Input contains invalid characters"), cfg |-> c]
             ELSE [done |-> Return(Str(ToUpperCase(Trim(input.s)))), cfg |-> c]

-----------------------------------------------------------------------------
(* safeEval, lines 40-56.                                                  *)
(*                                                                         *)
(* JsEvaluate is what new Function('return ' + expression)() does for a    *)
(* text over digits, + * ( ) and white space, with no line terminator and  *)
(* no literal that starts with 0:                                          *)
(* the text is tokenised by longest match (so "++" and "**" are single     *)
(* tokens), parsed as the operand of a return statement by the ECMAScript  *)
(* grammar, and evaluated.  Any other character becomes a token no         *)
(* expression accepts.  A SyntaxError of the constructor and an exception  *)
(* of the call are both caught at line 53.                                 *)
(***************************************************************************)

DigitVal(c) == (CHOOSE i \in DOMAIN DigitChars : DigitChars[i] = c) - 1

Tok(k, n) == [k |-> k, n |-> n]

\* the index after the run of digits that starts at i
RECURSIVE DigitsEnd(_, _)
DigitsEnd(s, i) ==
    IF i <= Len(s) /\ s[i] \in Digits THEN DigitsEnd(s, i + 1) ELSE i

\* the value of the decimal literal s[i..j-1]
RECURSIVE Decimal(_, _, _)
Decimal(s, i, j) ==
    IF j <= i THEN 0 ELSE 10 * Decimal(s, i, j - 1) + DigitVal(s[j - 1])

\* the tokens of s from index i; double is the set of characters that form a
\* two-character punctuator when repeated
RECURSIVE Tokens(_, _, _)
Tokens(s, i, double) ==
    IF i > Len(s) THEN <<>>
    ELSE IF s[i] \in WhiteSpace THEN Tokens(s, i + 1, double)
    ELSE IF s[i] \in Digits
    THEN LET j == DigitsEnd(s, i)
         IN  <<Tok("num", Decimal(s, i, j))>> \o Tokens(s, j, double)
    ELSE IF s[i] \in double /\ i < Len(s) /\ s[i + 1] = s[i]
    THEN <<Tok(s[i] \o s[i], 0)>> \o Tokens(s, i + 2, double)
    ELSE IF s[i] \in {"+", "*", "(", ")"}
    THEN <<Tok(s[i], 0)>> \o Tokens(s, i + 1, double)
    ELSE <<Tok("other", 0)>> \o Tokens(s, i + 1, double)

\* ECMAScript punctuators ++ and **
JsTokens(s) == Tokens(s, 1, {"+", "*"})

\* a parse: whether it succeeded, the value, the index of the next token
Parsed(v, p) == [ok |-> TRUE, v |-> v, p |-> p]
NoParse == [ok |-> FALSE, v |-> 0, p |-> 0]
At(ts, p, k) == p <= Len(ts) /\ ts[p].k = k

RECURSIVE Pow(_, _)
Pow(b, e) == IF e = 0 THEN 1 ELSE b * Pow(b, e - 1)

RECURSIVE JsPrimary(_, _), JsUnary(_, _), JsExponent(_, _), JsMulTail(_, _),
          JsMul(_, _), JsAddTail(_, _), JsAdd(_, _)

\* PrimaryExpression: a numeric literal or a parenthesised expression
JsPrimary(ts, p) ==
    IF At(ts, p, "num") THEN Parsed(ts[p].n, p + 1)
    ELSE IF At(ts, p, "(")
    THEN LET r == JsAdd(ts, p + 1)
         IN  IF r.ok /\ At(ts, r.p, ")") THEN Parsed(r.v, r.p + 1) ELSE NoParse
    ELSE NoParse

\* UnaryExpression: + UnaryExpression | UpdateExpression
JsUnary(ts, p) ==
    IF At(ts, p, "+") THEN JsUnary(ts, p + 1) ELSE JsPrimary(ts, p)

\* ExponentiationExpression: UnaryExpression
\*                         | UpdateExpression ** ExponentiationExpression
JsExponent(ts, p) ==
    IF At(ts, p, "+") THEN JsUnary(ts, p)
    ELSE LET b == JsPrimary(ts, p)
         IN  IF b.ok /\ At(ts, b.p, "**")
             THEN LET e == JsExponent(ts, b.p + 1)
                  IN  IF e.ok THEN Parsed(Pow(b.v, e.v), e.p) ELSE NoParse
             ELSE b

JsMulTail(ts, l) ==
    IF l.ok /\ At(ts, l.p, "*")
    THEN LET r == JsExponent(ts, l.p + 1)
         IN  IF r.ok THEN JsMulTail(ts, Parsed(l.v * r.v, r.p)) ELSE NoParse
    ELSE l

\* MultiplicativeExpression, left-associative
JsMul(ts, p) == JsMulTail(ts, JsExponent(ts, p))

JsAddTail(ts, l) ==
    IF l.ok /\ At(ts, l.p, "+")
    THEN LET r == JsMul(ts, l.p + 1)
         IN  IF r.ok THEN JsAddTail(ts, Parsed(l.v + r.v, r.p)) ELSE NoParse
    ELSE l

\* AdditiveExpression, left-associative
JsAdd(ts, p) == JsAddTail(ts, JsMul(ts, p))

\* new Function('return ' + expression)(), line 52: "returned" with the value,
\* or "thrown"
JsEvaluate(s) ==
    LET ts == JsTokens(s)
        r == JsAdd(ts, 1)
    IN  IF ts = <<>> THEN [kind |-> "returned", val |-> Undefined]
        ELSE IF r.ok /\ r.p = Len(ts) + 1
        THEN [kind |-> "returned", val |-> Num(r.v)]
        ELSE [kind |-> "thrown", val |-> Undefined]

\* the pattern of line 46 without its anchors: one allowed character is enough
ExprPatternUnanchored(s) == \E i \in DOMAIN s : s[i] \in ExprClass

\* /^[0-9+\-*/().\s]+$/.test(expression), line 46
ExprPattern(s) == MatchesAll(ExprClass, s)

\* the completion of safeEval and whether line 52 was reached
SafeEval(expression) ==
    IF ~IsString(expression) \/ expression.s = <<>>
    THEN [done |-> Throw("Expression must be a string"), evaluated |-> FALSE]
    ELSE IF ~ExprPattern(expression.s)
    THEN [done |-> Throw("Invalid characters in expression"), evaluated |-> FALSE]
    ELSE LET e == JsEvaluate(expression.s)
         IN  IF e.kind = "returned"
             THEN [done |-> Return(e.val), evaluated |-> TRUE]
             ELSE [done |-> Throw("Invalid mathematical expression"),
                   evaluated |-> TRUE]

-----------------------------------------------------------------------------
(* The arithmetic the text denotes: an expression over + * ( ) and decimal *)
(* literals, every operator a single character, * binding tighter than +,  *)
(* both left-associative.                                                  *)

ArithTokens(s) == Tokens(s, 1, {})

RECURSIVE ArithFactor(_, _), ArithTermTail(_, _), ArithTerm(_, _),
          ArithExprTail(_, _), ArithExpr(_, _)

ArithFactor(ts, p) ==
    IF At(ts, p, "num") THEN Parsed(ts[p].n, p + 1)
    ELSE IF At(ts, p, "(")
    THEN LET r == ArithExpr(ts, p + 1)
         IN  IF r.ok /\ At(ts, r.p, ")") THEN Parsed(r.v, r.p + 1) ELSE NoParse
    ELSE NoParse

ArithTermTail(ts, l) ==
    IF l.ok /\ At(ts, l.p, "*")
    THEN LET r == ArithFactor(ts, l.p + 1)
         IN  IF r.ok THEN ArithTermTail(ts, Parsed(l.v * r.v, r.p)) ELSE NoParse
    ELSE l

ArithTerm(ts, p) == ArithTermTail(ts, ArithFactor(ts, p))

ArithExprTail(ts, l) ==
    IF l.ok /\ At(ts, l.p, "+")
    THEN LET r == ArithTerm(ts, l.p + 1)
         IN  IF r.ok THEN ArithExprTail(ts, Parsed(l.v + r.v, r.p)) ELSE NoParse
    ELSE l

ArithExpr(ts, p) == ArithExprTail(ts, ArithTerm(ts, p))

\* whether s is a well-formed arithmetic expression, and its value
Denotes(s) ==
    LET ts == ArithTokens(s)
        r == ArithExpr(ts, 1)
    IN  IF r.ok /\ r.p = Len(ts) + 1 THEN [ok |-> TRUE, v |-> r.v]
        ELSE [ok |-> FALSE, v |-> 0]

-----------------------------------------------------------------------------
(* The configuration, lines 6-10, and the values the operations are given. *)

Config0 ==
    [maxInputLength |-> 1000, allowedChars |-> [lastIndex |-> 0], timeout |-> 5000]

Texts(alphabet, n) == UNION {[1..k -> alphabet] : k \in 1..n}
Repeat(c, n) == [i \in 1..n |-> c]

HelloWorld == <<"H","e","l","l","o"," ","W","o","r","l","d">>
ScriptTag == <<"<","s","c","r","i","p","t",">">>
TwoPlusThreeTimesFour == <<"2"," ","+"," ","3"," ","*"," ","4">>
ParenSum == <<"(","2","+","3",")","*","4">>
TwoPlus == <<"2"," ","+">>
AlertOne == <<"a","l","e","r","t","(","1",")">>
OneToFive == <<Num(1), Num(2), Num(3), Num(4), Num(5)>>

InputAlphabet == {"a", "Z", " ", "_", "<"}
InputValues ==
    {Undefined, Null, Num(5), Arr(<<>>), Str(<<>>)}
    \cup {Str(s) : s \in Texts(InputAlphabet, MaxInputLen)}
    \cup {Str(HelloWorld), Str(ScriptTag),
          Str(Repeat("a", Config0.maxInputLength)),
          Str(Repeat("a", Config0.maxInputLength + 1)),
          Str(Repeat("<", Config0.maxInputLength + 1))}

ExprAlphabet == {"2", "3", "+", "*", "(", ")", " ", "a"}
ExprValues ==
    {Undefined, Null, Num(5), Str(<<>>)}
    \cup {Str(s) : s \in Texts(ExprAlphabet, MaxExprLen)}
    \cup {Str(TwoPlusThreeTimesFour), Str(ParenSum), Str(TwoPlus), Str(AlertOne)}

Items == {Num(1), Num(2), Str(<<"x">>)}
DataValues ==
    {Undefined, Num(5), Str(<<"x">>), Arr(<<>>), Arr(OneToFive)}
    \cup {Arr(a) : a \in Texts(Items, MaxDataLen)}

\* the sample values of main(), and values that make one operation fail
Fixtures ==
    [input : {Str(HelloWorld), Str(ScriptTag), Str(<<" ">>)},
     expression : {Str(TwoPlusThreeTimesFour), Str(TwoPlus), Str(AlertOne), Str(<<" ">>)},
     data : {Arr(OneToFive), Arr(<<Num(1), Str(<<"x">>), Num(3)>>), Str(<<"x">>)}]
DefaultFixture ==
    [input |-> Str(HelloWorld), expression |-> Str(TwoPlusThreeTimesFour),
     data |-> Arr(OneToFive)]

-----------------------------------------------------------------------------
(* Promises, the timer and the record of a call. *)

NoPromise == [state |-> "none", val |-> Undefined, msg |-> ""]
Pending == [state |-> "pending", val |-> Undefined, msg |-> ""]
Fulfilled(v) == [state |-> "fulfilled", val |-> v, msg |-> ""]
Rejected(m) == [state |-> "rejected", val |-> Undefined, msg |-> m]
Settled(p) == p.state \in {"fulfilled", "rejected"}

\* resolve(v) and reject(new Error(m)) of a promise: the first call settles it
ResolveWith(p, v) == IF p.state = "pending" THEN Fulfilled(v) ELSE p
RejectWith(p, m) == IF p.state = "pending" THEN Rejected(m) ELSE p

\* clearTimeout
ClearTimeout(t) == IF t = "pending" THEN "cleared" ELSE t

Call(fn, arg, done, evaluated) ==
    [fn |-> fn, arg |-> arg, done |-> done, evaluated |-> evaluated,
     after |-> last.after]
NoCall ==
    [fn |-> "none", arg |-> Undefined, done |-> Return(Undefined),
     evaluated |-> FALSE, after |-> FALSE]

Line(label, v) == [label |-> label, val |-> v]

Init ==
    /\ isMain \in BOOLEAN
    /\ config = Config0
    /\ pc = "idle"
    /\ elapsed = 0
    /\ timer = "none"
    /\ promise = NoPromise
    /\ settleCalls = 0
    /\ outer = NoPromise
    /\ data = <<>>
    /\ idx = 1
    /\ result = <<>>
    /\ expired = FALSE
    /\ caught = ""
    /\ last = NoCall
    /\ mainPc = IF isMain THEN "start" ELSE "off"
    /\ fixture \in IF isMain THEN Fixtures ELSE {DefaultFixture}
    /\ invoked = <<>>
    /\ mainError = ""
    /\ out = <<>>
    /\ err = <<>>
    /\ exitCode = -1

mainVars == <<mainPc, fixture, invoked, mainError, out, err, exitCode>>
dataVars == <<pc, elapsed, timer, promise, settleCalls, outer, data, idx, result,
              expired, caught>>

-----------------------------------------------------------------------------
(* processData, lines 63-88. *)

\* lines 64-66 in a function that is not async: the error reaches the caller
NonArraySync(v) ==
    [done |-> Throw("Data must be an array"), outer |-> NoPromise]

\* lines 64-66: the throw of an async function rejects the promise it returns
NonArray(v) ==
    [done |-> Return(PromiseRef), outer |-> Rejected("Data must be an array")]

\* the callback of map with item * item
MapCallbackSquare(item) ==
    IF ~IsNumber(item) THEN Throw("All items must be numbers")
    ELSE Return(Num(item.n * item.n))

\* the callback of map, lines 74-79
MapCallback(item) ==
    IF ~IsNumber(item) THEN Throw("All items must be numbers")
    ELSE Return(Num(item.n * 2))

\* lines 63-71: the call up to the registration of the timer
ProcessDataEnter(v) ==
    /\ last' = Call("processData", v,
                    IF IsArray(v) THEN Return(PromiseRef) ELSE NonArray(v).done, FALSE)
    /\ settleCalls' = 0
    /\ idx' = 1
    /\ result' = <<>>
    /\ expired' = FALSE
    /\ caught' = ""
    /\ IF IsArray(v)
       THEN /\ promise' = Pending
            /\ outer' = Pending
            /\ timer' = "pending"
            /\ elapsed' = 0
            /\ data' = v.a
            /\ pc' = "map"
       ELSE /\ promise' = NoPromise
            /\ outer' = NonArray(v).outer
            /\ UNCHANGED <<timer, elapsed>>
            /\ data' = <<>>
            /\ pc' = "idle"
    /\ UNCHANGED config

\* lines 74-79: map calls the callback on the next element
MapItem ==
    /\ pc = "map"
    /\ idx <= Len(data)
    /\ LET r == MapCallback(data[idx])
       IN  IF r.kind = "throw"
           THEN /\ caught' = r.msg
                /\ pc' = "catch"
                /\ UNCHANGED <<idx, result>>
           ELSE /\ result' = Append(result, r.val)
                /\ idx' = idx + 1
                /\ UNCHANGED <<pc, caught>>
    /\ UNCHANGED <<isMain, config, elapsed, timer, promise, settleCalls, outer,
                   data, expired, last>>
    /\ UNCHANGED mainVars

\* lines 80-81: map has returned; clearTimeout(timeout)
ClearOnSuccess ==
    /\ pc = "map"
    /\ idx > Len(data)
    /\ timer' = ClearTimeout(timer)
    /\ pc' = "resolve"
    /\ UNCHANGED <<isMain, config, elapsed, promise, settleCalls, outer, data, idx,
                   result, expired, caught, last>>
    /\ UNCHANGED mainVars

\* line 82: resolve(result); the executor and processData return
Resolve ==
    /\ pc = "resolve"
    /\ promise' = ResolveWith(promise, Arr(result))
    /\ settleCalls' = settleCalls + 1
    /\ pc' = "idle"
    /\ UNCHANGED <<isMain, config, elapsed, timer, outer, data, idx, result,
                   expired, caught, last>>
    /\ UNCHANGED mainVars

\* the catch block without its clearTimeout
ClearOnErrorMissing ==
    /\ pc = "catch"
    /\ pc' = "reject"
    /\ UNCHANGED <<isMain, config, elapsed, timer, promise, settleCalls, outer,
                   data, idx, result, expired, caught, last>>
    /\ UNCHANGED mainVars

\* line 84: clearTimeout(timeout) in the catch block
ClearOnError ==
    /\ pc = "catch"
    /\ timer' = ClearTimeout(timer)
    /\ pc' = "reject"
    /\ UNCHANGED <<isMain, config, elapsed, promise, settleCalls, outer, data, idx,
                   result, expired, caught, last>>
    /\ UNCHANGED mainVars

\* line 85: reject(error); the executor and processData return
Reject ==
    /\ pc = "reject"
    /\ promise' = RejectWith(promise, caught)
    /\ settleCalls' = settleCalls + 1
    /\ pc' = "idle"
    /\ UNCHANGED <<isMain, config, elapsed, timer, outer, data, idx, result,
                   expired, caught, last>>
    /\ UNCHANGED mainVars

\* time passes while the timer is registered; the duration may elapse while
\* map still has elements to visit
Tick ==
    /\ timer = "pending"
    /\ elapsed < config.timeout
    /\ elapsed' = elapsed + TickMs
    /\ expired' = (expired \/ (pc = "map" /\ idx <= Len(data)
                                /\ elapsed' >= config.timeout))
    /\ UNCHANGED <<isMain, config, pc, timer, promise, settleCalls, outer, data,
                   idx, result, caught, last>>
    /\ UNCHANGED mainVars

\* the event loop, which runs a job only when no JavaScript is on the stack:
\* first the promise job that settles the promise of the async function with
\* the promise it returned (line 68), else the callback of a due timer
\* (lines 69-71)
EventLoop ==
    /\ pc = "idle"
    /\ mainPc \in {"off", "await", "done"}
    /\ IF outer.state = "pending" /\ Settled(promise)
       THEN /\ outer' = promise
            /\ UNCHANGED <<timer, promise, settleCalls>>
       ELSE /\ timer = "pending"
            /\ elapsed >= config.timeout
            /\ timer' = "fired"
            /\ promise' = RejectWith(promise, "Processing timeout")
            /\ settleCalls' = settleCalls + 1
            /\ UNCHANGED outer
    /\ UNCHANGED <<isMain, config, pc, elapsed, data, idx, result, expired, caught,
                   last>>
    /\ UNCHANGED mainVars

-----------------------------------------------------------------------------
(* A program that requires the module and calls its exports, lines 125-129. *)

\* the caller is between two calls and no promise of its is pending
Ready ==
    /\ ~isMain
    /\ pc = "idle"
    /\ last.fn = "none"

CallProcessInput(v) ==
    /\ Ready
    /\ LET r == ProcessInput(config, v)
       IN  /\ config' = r.cfg
           /\ last' = Call("processInput", v, r.done, FALSE)
    /\ UNCHANGED isMain
    /\ UNCHANGED dataVars
    /\ UNCHANGED mainVars

CallSafeEval(v) ==
    /\ Ready
    /\ LET r == SafeEval(v)
       IN  last' = Call("safeEval", v, r.done, r.evaluated)
    /\ UNCHANGED <<isMain, config>>
    /\ UNCHANGED dataVars
    /\ UNCHANGED mainVars

CallProcessData(v) ==
    /\ Ready
    /\ ProcessDataEnter(v)
    /\ UNCHANGED isMain
    /\ UNCHANGED mainVars

\* the caller has the outcome of its call (the completion of a synchronous
\* call, the settlement of a promise) and drops it; a timer still pending
\* stays registered
Discard ==
    /\ ~isMain
    /\ pc = "idle"
    /\ last.fn # "none"
    /\ outer.state # "pending"
    /\ last' = [NoCall EXCEPT !.after = TRUE]
    /\ pc' = "idle"
    /\ promise' = NoPromise
    /\ outer' = NoPromise
    /\ settleCalls' = 0
    /\ data' = <<>>
    /\ idx' = 1
    /\ result' = <<>>
    /\ expired' = FALSE
    /\ caught' = ""
    /\ timer' = IF timer = "pending" THEN timer ELSE "none"
    /\ elapsed' = IF timer = "pending" THEN elapsed ELSE 0
    /\ UNCHANGED <<isMain, config>>
    /\ UNCHANGED mainVars

-----------------------------------------------------------------------------
(* main, lines 93-123. *)

\* line 95
MainStart ==
    /\ mainPc = "start"
    /\ out' = Append(out, Line("Starting secure JavaScript application...", Undefined))
    /\ mainPc' = "input"
    /\ UNCHANGED <<isMain, config, last, fixture, invoked, mainError, err, exitCode>>
    /\ UNCHANGED dataVars

\* lines 98-100
MainProcessInput ==
    /\ mainPc = "input"
    /\ invoked' = Append(invoked, "processInput")
    /\ LET r == ProcessInput(config, fixture.input)
       IN  /\ config' = r.cfg
           /\ last' = Call("processInput", fixture.input, r.done, FALSE)
           /\ IF r.done.kind = "return"
              THEN /\ out' = Append(out, Line("Processed input:", r.done.val))
                   /\ mainPc' = "eval"
                   /\ UNCHANGED mainError
              ELSE /\ mainError' = r.done.msg
                   /\ mainPc' = "catch"
                   /\ UNCHANGED out
    /\ UNCHANGED <<isMain, fixture, err, exitCode>>
    /\ UNCHANGED dataVars

\* lines 103-105
MainSafeEval ==
    /\ mainPc = "eval"
    /\ invoked' = Append(invoked, "safeEval")
    /\ LET r == SafeEval(fixture.expression)
       IN  /\ last' = Call("safeEval", fixture.expression, r.done, r.evaluated)
           /\ IF r.done.kind = "return"
              THEN /\ out' = Append(out, Line("Expression result:", r.done.val))
                   /\ mainPc' = "data"
                   /\ UNCHANGED mainError
              ELSE /\ mainError' = r.done.msg
                   /\ mainPc' = "catch"
                   /\ UNCHANGED out
    /\ UNCHANGED <<isMain, config, fixture, err, exitCode>>
    /\ UNCHANGED dataVars

\* lines 108-109: the call; main is suspended at the await
MainProcessData ==
    /\ mainPc = "data"
    /\ invoked' = Append(invoked, "processData")
    /\ ProcessDataEnter(fixture.data)
    /\ mainPc' = "await"
    /\ UNCHANGED <<isMain, fixture, mainError, out, err, exitCode>>

\* lines 109-112: main resumes when the awaited promise is settled
MainResume ==
    /\ mainPc = "await"
    /\ pc = "idle"
    /\ Settled(outer)
    /\ IF outer.state = "fulfilled"
       THEN /\ out' = out \o <<Line("Processed data:", outer.val),
                              Line("Application completed successfully!", Undefined)>>
            /\ mainPc' = "done"
            /\ UNCHANGED mainError
       ELSE /\ mainError' = outer.msg
            /\ mainPc' = "catch"
            /\ UNCHANGED out
    /\ UNCHANGED <<isMain, config, last, fixture, invoked, err, exitCode>>
    /\ UNCHANGED dataVars

\* the catch block printing the message without process.exit(1)
MainCatchNoExit ==
    /\ mainPc = "catch"
    /\ err' = Append(err, Line("Error:", Str(<<mainError>>)))
    /\ mainPc' = "done"
    /\ UNCHANGED <<isMain, config, last, fixture, invoked, mainError, out, exitCode>>
    /\ UNCHANGED dataVars

\* lines 114-117: console.error('Error:', error.message); process.exit(1)
MainCatch ==
    /\ mainPc = "catch"
    /\ err' = Append(err, Line("Error:", Str(<<mainError>>)))
    /\ exitCode' = 1
    /\ mainPc' = "exited"
    /\ UNCHANGED <<isMain, config, last, fixture, invoked, mainError, out>>
    /\ UNCHANGED dataVars

\* main has returned and nothing keeps the event loop alive: the process ends
\* with status 0
MainExit ==
    /\ mainPc = "done"
    /\ pc = "idle"
    /\ timer # "pending"
    /\ exitCode' = 0
    /\ mainPc' = "exited"
    /\ UNCHANGED <<isMain, config, last, fixture, invoked, mainError, out, err>>
    /\ UNCHANGED dataVars

-----------------------------------------------------------------------------

Next ==
    \/ \E v \in InputValues : CallProcessInput(v)
    \/ \E v \in ExprValues : CallSafeEval(v)
    \/ \E v \in DataValues : CallProcessData(v)
    \/ Discard
    \/ MapItem
    \/ ClearOnSuccess
    \/ Resolve
    \/ ClearOnError
    \/ Reject
    \/ Tick
    \/ EventLoop
    \/ MainStart
    \/ MainProcessInput
    \/ MainSafeEval
    \/ MainProcessData
    \/ MainResume
    \/ MainCatch
    \/ MainExit

Spec == Init /\ [][Next]_vars

-----------------------------------------------------------------------------
(* The properties. *)

AllNumbers(a) == \A i \in DOMAIN a : IsNumber(a[i])
Blank(s) == \A i \in DOMAIN s : s[i] \in WhiteSpace
ResultLabels == <<"Processed input:", "Expression result:", "Processed data:">>
Operations == <<"processInput", "safeEval", "processData">>
IsResultLine(l) == l.label \in Range(ResultLabels)
ResultLines == SelectSeq(out, IsResultLine)
IsPrefix(s, r) == Len(s) <= Len(r) /\ \A i \in DOMAIN s : s[i] = r[i]

\* C1: when the configured duration elapses before the transform of an array
\* of numbers has completed, the promise processData returned is rejected with
\* 'Processing timeout' and is not resolved with a result.
C1_TimeoutBoundsTransform ==
    (expired /\ AllNumbers(data) /\ Settled(outer))
        => outer = Rejected("Processing timeout")

\* C2 as stated: no error other than the timeout and the element-type error
\* arrives through the promise, and processData called with a non-array throws
\* 'Data must be an array' at the call and returns no rejected promise.
C2_NonArrayThrowsAtCall ==
    /\ outer.state = "rejected"
           => outer.msg \in {"Processing timeout", "All items must be numbers"}
    /\ (last.fn = "processData" /\ ~IsArray(last.arg))
           => last.done = Throw("Data must be an array")

\* C2 as amended: every error of processInput and safeEval is thrown at the
\* call; a call of processData never throws: it returns a promise, and for a
\* non-array that promise is already rejected with 'Data must be an array';
\* the promise is rejected with no error but that one and the element-type one.
C2_ErrorsByChannel ==
    /\ last.fn \in {"processInput", "safeEval"}
           => /\ outer.state = "none"
              /\ last.done.kind = "return" => last.done.val.t # "promise"
              /\ ~IsString(last.arg) => last.done.kind = "throw"
    /\ last.fn = "processData"
           => /\ last.done = Return(PromiseRef)
              /\ outer.state # "none"
              /\ ~IsArray(last.arg) => outer = Rejected("Data must be an array")
    /\ outer.state = "rejected"
           => outer.msg \in {"Data must be an array", "All items must be numbers"}

C2_Witness ==
    /\ last.fn = "processData"
    /\ last.arg = Str(<<"x">>)
    /\ last.done = Return(PromiseRef)
    /\ outer = Rejected("Data must be an array")

\* a text that matches the allowed pattern and is within the length bound
Admissible(v) ==
    /\ IsString(v)
    /\ v.s # <<>>
    /\ \A i \in DOMAIN v.s : v.s[i] \in AllowedClass
    /\ Len(v.s) <= Config0.maxInputLength

\* C3 as stated: on an admissible text processInput returns the text trimmed
\* and upper-cased, and processInput of that output returns the same value.
C3_SanitizerIdempotent ==
    (last.fn = "processInput" /\ Admissible(last.arg))
        => /\ last.done = Return(Str(ToUpperCase(Trim(last.arg.s))))
           /\ ProcessInput(config, last.done.val).done = last.done

\* C3 as amended: on an admissible text processInput returns the text trimmed
\* and upper-cased; processInput of that output returns the same value when
\* the text has a character that is not white space; when the text is white
\* space only the output is the empty text, which processInput rejects with
\* 'Input must be a non-empty string'.
C3_SanitizerIdempotentUnlessBlank ==
    (last.fn = "processInput" /\ Admissible(last.arg))
        => /\ last.done = Return(Str(ToUpperCase(Trim(last.arg.s))))
           /\ IF Blank(last.arg.s)
              THEN /\ last.done.val = Str(<<>>)
                   /\ ProcessInput(config, last.done.val).done
                          = Throw("Input must be a non-empty string")
              ELSE ProcessInput(config, last.done.val).done = last.done

C3_Witness ==
    /\ last.fn = "processInput"
    /\ last.arg = Str(<<" ", "a", "Z">>)
    /\ last.done = Return(Str(<<"A", "Z">>))

\* C4: for a text made only of the characters of the expression pattern,
\* safeEval returns the number the text denotes as an arithmetic expression
\* when it is well-formed, and fails with 'Invalid mathematical expression'
\* when it is not; it returns nothing that is not a number.
C4_EvaluatorDenotes ==
    (last.fn = "safeEval" /\ IsString(last.arg) /\ last.arg.s # <<>>
       /\ \A i \in DOMAIN last.arg.s : last.arg.s[i] \in ExprClass)
        => LET d == Denotes(last.arg.s)
           IN  IF d.ok THEN last.done = Return(Num(d.v))
               ELSE last.done = Throw("Invalid mathematical expression")

\* C5: processInput decides in a fixed order: a value that is not a text or is
\* empty fails with 'Input must be a non-empty string'; else a text longer than
\* maxInputLength fails with 'Input too long', whatever its characters; else a
\* text with a character outside the pattern fails with 'Input contains
\* invalid characters'; every other input succeeds.
C5_SanitizerCheckOrder ==
    last.fn = "processInput"
        => LET v == last.arg
           IN  IF ~IsString(v) \/ v.s = <<>>
               THEN last.done = Throw("Input must be a non-empty string")
               ELSE IF Len(v.s) > Config0.maxInputLength
               THEN last.done = Throw("Input too long")
               ELSE IF \E i \in DOMAIN v.s : v.s[i] \notin AllowedClass
               THEN last.done = Throw("Input contains invalid characters")
               ELSE last.done.kind = "return"

C5_Witness ==
    /\ last.fn = "processInput"
    /\ last.arg = Str(Repeat("<", Config0.maxInputLength + 1))
    /\ last.done = Throw("Input too long")

\* C6: once the promise of processData on an array is settled, it is fulfilled
\* with an array of the same length whose i-th element is twice the i-th
\* element of the input when every element is a number, and it is rejected
\* with 'All items must be numbers', carrying no array, when one is not.
C6_TransformerDoubles ==
    (last.fn = "processData" /\ IsArray(last.arg) /\ Settled(outer))
        => LET a == last.arg.a
           IN  IF AllNumbers(a)
               THEN /\ outer.state = "fulfilled"
                    /\ IsArray(outer.val)
                    /\ Len(outer.val.a) = Len(a)
                    /\ \A i \in DOMAIN a : outer.val.a[i] = Num(2 * a[i].n)
               ELSE outer = Rejected("All items must be numbers")

C6_Witness ==
    /\ last.fn = "processData"
    /\ last.arg = Arr(OneToFive)
    /\ outer = Fulfilled(Arr(<<Num(2), Num(4), Num(6), Num(8), Num(10)>>))

\* the first operation of main() that fails on the fixture, 4 when none does
FirstFailure ==
    IF ~IsString(fixture.input) \/ fixture.input.s = <<>>
       \/ Len(fixture.input.s) > Config0.maxInputLength
       \/ \E i \in DOMAIN fixture.input.s : fixture.input.s[i] \notin AllowedClass
    THEN 1
    ELSE IF fixture.expression \in {Str(TwoPlus), Str(AlertOne)} THEN 2
    ELSE IF ~IsArray(fixture.data) \/ ~AllNumbers(fixture.data.a) THEN 3
    ELSE 4

\* C7: main() invokes processInput, safeEval and processData in that order and
\* prints the result of each before it starts the next; on the default
\* fixtures it prints the three result lines and the process ends with status
\* 0; when an operation fails it prints the message of the error, the process
\* ends with status 1, no later operation has been invoked and no result line
\* follows the failing step.
C7_DriverStopsAtFirstFailure ==
    isMain =>
        /\ IsPrefix(invoked, Operations)
        /\ IsPrefix([i \in DOMAIN ResultLines |-> ResultLines[i].label], ResultLabels)
        /\ Len(ResultLines) <= Len(invoked)
        /\ Len(invoked) <= Len(ResultLines) + 1
        /\ exitCode \in {-1, 0, 1}
        /\ exitCode = -1 <=> mainPc # "exited"
        /\ (mainPc = "exited" /\ FirstFailure = 4)
               => /\ exitCode = 0
                  /\ Len(ResultLines) = 3
                  /\ err = <<>>
        /\ (mainPc = "exited" /\ fixture = DefaultFixture)
               => ResultLines =
                      <<Line("Processed input:", Str(ToUpperCase(HelloWorld))),
                        Line("Expression result:", Num(14)),
                        Line("Processed data:",
                             Arr(<<Num(2), Num(4), Num(6), Num(8), Num(10)>>))>>
        /\ (mainPc = "exited" /\ FirstFailure < 4)
               => /\ exitCode = 1
                  /\ Len(invoked) = FirstFailure
                  /\ Len(ResultLines) = FirstFailure - 1
                  /\ Len(err) = 1
                  /\ err[1] = Line("Error:", Str(<<mainError>>))
                  /\ mainError # ""

C7_Witness ==
    /\ isMain
    /\ exitCode = 1
    /\ invoked = <<"processInput", "safeEval">>
    /\ Len(ResultLines) = 1
    /\ err = <<Line("Error:", Str(<<"Invalid mathematical expression">>))>>

\* C8: for a text with a character outside digits, + - * / ( ) . and white
\* space, safeEval fails with 'Invalid characters in expression' and the
\* evaluation of line 52 is not reached.
C8_CharsetCheckedBeforeEval ==
    (last.fn = "safeEval" /\ IsString(last.arg)
       /\ \E i \in DOMAIN last.arg.s : last.arg.s[i] \notin ExprClass)
        => /\ last.done = Throw("Invalid characters in expression")
           /\ ~last.evaluated

C8_Witness ==
    /\ last.fn = "safeEval"
    /\ last.arg = Str(AlertOne)
    /\ last.done = Throw("Invalid characters in expression")
    /\ ~last.evaluated

\* C9: resolve or reject of the promise of processData is called at most once,
\* and exactly once when it is settled; on the success path and on the
\* element-type-error path the timer is cleared before the promise is settled;
\* the timer callback never runs, and no timer is pending once the promise is
\* settled.
C9_SettledOnceTimerCleared ==
    /\ settleCalls <= 1
    /\ timer # "fired"
    /\ pc \in {"resolve", "reject"}
           => timer = "cleared" /\ promise.state = "pending" /\ settleCalls = 0
    /\ Settled(promise) => timer = "cleared" /\ settleCalls = 1
    /\ Settled(outer) /\ promise.state # "none" => outer = promise

C9_Witness ==
    /\ promise = Rejected("All items must be numbers")
    /\ outer = promise
    /\ settleCalls = 1
    /\ timer = "cleared"
    /\ elapsed >= config.timeout

\* C10: whatever calls have been made, the configuration record is the one
\* constructed at lines 6-10, match state included; a program that only calls
\* the library has nothing printed and has not exited; and the completion of a
\* call of processInput, the operation that reads the match state, is the one
\* its argument gets under the initial configuration.
C10_CallsLeaveNoTrace ==
    /\ config = Config0
    /\ ~isMain => out = <<>> /\ err = <<>> /\ exitCode = -1
    /\ last.fn = "processInput" => last.done = ProcessInput(Config0, last.arg).done

C10_Witness ==
    /\ ~isMain
    /\ last.after
    /\ last.fn = "processInput"
    /\ last.arg = Str(<<"a">>)
    /\ last.done = Return(Str(<<"A">>))

====
